---- MODULE Spec2Model ----
(***************************************************************************)
(* Model of CANApp (macsboost_grok_canalyzer2.py): the message store with  *)
(* its eviction, the per-identifier statistics and history, the highlight  *)
(* fade timers, the identifier filter, the connection (receiver thread,    *)
(* frame queue, dispatcher tick) and the send handlers.                    *)
(*                                                                         *)
(* Handlers that run on the Tk main thread are atomic with respect to      *)
(* each other (one callback at a time); the receiver thread interleaves    *)
(* with them at every statement that touches shared state.                 *)
(***************************************************************************)
EXTENDS Integers, Sequences, FiniteSets, TLC

VARIABLES
    max_messages,           \* self.max_messages
    messages,               \* self.messages, in dict (insertion) order
    id_stats,               \* self.id_stats
    message_history,        \* self.message_history
    last_data,              \* self.last_data
    highlighted_rows,       \* self.highlighted_rows
    timers,                 \* pending Tk after() callbacks of fade_highlight, in due order
    message_count,          \* self.message_count
    message_rate,           \* self.message_rate, frames per second as a fraction
    bus_load,               \* self.bus_load, percent as a fraction
    last_message_timestamp, \* self.last_message_timestamp
    paused,                 \* self.paused
    filter_ids,             \* self.filter_ids
    highlight_changes_var,  \* self.highlight_changes_var
    extended_id_var,        \* self.extended_id_var
    can_fd_var,             \* self.can_fd_var
    check_queue_job,        \* a check_queue callback is pending in Tk
    bus,                    \* self.bus: 0 is None, k is the k-th Bus object opened
    running,                \* self.running
    message_queue,          \* self.message_queue
    can_error_count,        \* self.can_error_count
    threads,                \* the receiver threads started so far, each at its position in receive_loop
    receiver_thread,        \* self.receiver_thread: index into threads, 0 before the first start
    shutdowns,              \* per Bus object, the number of shutdown() calls it has received
    main_pc,                \* where the Tk main thread is: "idle" between handlers, "stop_join" inside stop_can
    periodic_task_id,       \* self.periodic_task_id
    send_periodic_var,      \* self.send_periodic_var
    periodic_jobs,          \* the callbacks of schedule_periodic_send pending in Tk, each with its after id and the arguments of its lambda
    nrecv,                  \* history: number of frames the transport has delivered
    ev,                     \* history: what the last handler did
    trace,                  \* history: the identifiers of the processed frames, ClearMark and ResetMark for clear_treeview and reset_stats
    ins_order,              \* history: stored identifiers by the step at which they entered the store
    prev_rx                 \* history: payload of the last processed RX frame of each identifier

cfgVars == <<max_messages, paused, filter_ids, highlight_changes_var,
             extended_id_var, can_fd_var, check_queue_job>>
appVars == <<messages, id_stats, message_history, last_data, highlighted_rows,
             timers, message_count, message_rate, bus_load,
             last_message_timestamp>>
connVars == <<bus, running, message_queue, can_error_count, threads,
              receiver_thread, shutdowns, main_pc, periodic_task_id,
              send_periodic_var, periodic_jobs, nrecv>>
histVars == <<ev, trace, ins_order, prev_rx>>

vars == <<cfgVars, appVars, connVars, histVars>>

-----------------------------------------------------------------------------
(* Bounds of the exploration *)

MaxCapacity == 3
MaxFrames == 5
MaxUpdates == 3

(* Program constants *)

None == -1
HistoryCap == 1000
FadeSteps == 7
highlight_mode == "Message Change"

-----------------------------------------------------------------------------
(* Python dicts as functions with a finite domain *)

EmptyMap == [k \in {} |-> 0]
Put(f, k, v) == [x \in (DOMAIN f) \cup {k} |-> IF x = k THEN v ELSE f[x]]
Del(f, k) == [x \in (DOMAIN f) \ {k} |-> f[x]]

SeqRange(s) == {s[i] : i \in 1..Len(s)}

(* f"{msg.arbitration_id:X}": the upper-case hex digits, most significant first *)
RECURSIVE HexId(_)
HexId(n) == IF n < 16 THEN <<n>> ELSE Append(HexId(n \div 16), n % 16)

(* ' '.join(f'{b:02X}' for b in msg.data): two hex digits per byte *)
HexData(d) == [i \in 1..Len(d) |-> <<d[i] \div 16, d[i] % 16>>]

NoId == << >>

(* Python truthiness of a timestamp: None and 0.0 are false *)
Truthy(t) == t # None /\ t # 0

IdsInOrder(msgs) == [i \in 1..Len(msgs) |-> msgs[i].can_id]
StoredIds(msgs) == {msgs[i].can_id : i \in 1..Len(msgs)}
IndexOf(msgs, can_id) == CHOOSE i \in 1..Len(msgs) : msgs[i].can_id = can_id

-----------------------------------------------------------------------------
(* Tk after()/after_cancel() for the fade callbacks.  Every fade callback  *)
(* is scheduled with the same delay (500 ms), so the callbacks come due in *)
(* the order they were scheduled: timers is that order.  A handle is only  *)
(* ever compared for equality, so after() hands out the least handle that  *)
(* is neither pending nor still stored in highlighted_rows.                *)

HandlesInUse(tm, hl) == {tm[i].h : i \in 1..Len(tm)} \cup {hl[k].after_id : k \in DOMAIN hl}

NewHandle(tm, hl) ==
    CHOOSE n \in 1..(Cardinality(HandlesInUse(tm, hl)) + 1) :
        /\ n \notin HandlesInUse(tm, hl)
        /\ \A m \in 1..(n - 1) : m \in HandlesInUse(tm, hl)

after(tm, h, can_id) == Append(tm, [h |-> h, can_id |-> can_id])

after_cancel(tm, h) == SelectSeq(tm, LAMBDA t : t.h # h)

-----------------------------------------------------------------------------
(* The fields the Tk-thread handlers mutate, as one record *)

App == [messages |-> messages, id_stats |-> id_stats,
        message_history |-> message_history, last_data |-> last_data,
        highlighted_rows |-> highlighted_rows, timers |-> timers,
        message_count |-> message_count,
        message_rate |-> message_rate, bus_load |-> bus_load,
        last_message_timestamp |-> last_message_timestamp]

SetApp(s) ==
    /\ messages' = s.messages
    /\ id_stats' = s.id_stats
    /\ message_history' = s.message_history
    /\ last_data' = s.last_data
    /\ highlighted_rows' = s.highlighted_rows
    /\ timers' = s.timers
    /\ message_count' = s.message_count
    /\ message_rate' = s.message_rate
    /\ bus_load' = s.bus_load
    /\ last_message_timestamp' = s.last_message_timestamp

RECURSIVE GCD(_, _)
GCD(a, b) == IF b = 0 THEN a ELSE GCD(b, a % b)

(* the floats of update_stats as exact fractions n/d in lowest terms, d > 0 *)
Rat(n, d) == [n |-> n \div GCD(n, d), d |-> d \div GCD(n, d)]
Zero == Rat(0, 1)
Hundred == Rat(100, 1)
RatLeq(a, b) == a.n * b.d <= b.n * a.d
RatEq(a, b) == a.n * b.d = b.n * a.d

(* cfg['Interface']['bitrate']: the default, one of available_bitrates *)
bitrate == 500000

ClassicBits == 47 + 64
FdBits == 128 + 64
bits_per_message == IF can_fd_var THEN FdBits ELSE ClassicBits

MsPerSecond == 1000

(* rate * bits_per_message / bitrate * 100 *)
LoadOf(rate) == Rat(rate.n * bits_per_message * 100, rate.d * bitrate)

(* a recompute that reports the load as computed *)
update_stats_no_clamp(s, elapsed) ==
    IF elapsed > 0
    THEN LET rate == Rat(s.message_count * MsPerSecond, elapsed)
         IN  [s EXCEPT !.message_rate = rate,
                       !.bus_load = LoadOf(rate),
                       !.message_count = 0]
    ELSE s

(* update_stats, lines 930-942: elapsed = time.time() -                    *)
(* self.last_stats_update, in milliseconds.  last_stats_update is set to   *)
(* the clock whenever elapsed > 0, so elapsed is an input of each call: 0  *)
(* (same clock reading) or positive.                                       *)
update_stats(s, elapsed) ==
    IF elapsed > 0
    THEN LET rate == Rat(s.message_count * MsPerSecond, elapsed)
             load == LoadOf(rate)
         IN  [s EXCEPT !.message_rate = rate,
                       !.bus_load = IF ~RatLeq(load, Hundred) THEN Hundred ELSE load,
                       !.message_count = 0]
    ELSE s

(* an early return that filters both directions *)
Dropped_filters_tx(msg, direction) ==
    \/ paused
    \/ (filter_ids # {} /\ HexId(msg.arbitration_id) \notin filter_ids)

(* an early return that does not look at the pause flag *)
Dropped_ignores_pause(msg, direction) ==
    direction = "RX" /\ filter_ids # {} /\ HexId(msg.arbitration_id) \notin filter_ids

(* display_message, lines 704-705: the early return *)
Dropped(msg, direction) ==
    \/ paused
    \/ (direction = "RX" /\ filter_ids # {} /\ HexId(msg.arbitration_id) \notin filter_ids)

(* the highlight condition without the direction test *)
should_highlight_any_direction(s, can_id, data, direction) ==
    /\ highlight_changes_var
    /\ can_id \in DOMAIN s.last_data
    /\ s.last_data[can_id] # data

(* display_message, lines 754-759 *)
should_highlight(s, can_id, data, direction) ==
    /\ direction = "RX"
    /\ highlight_changes_var
    /\ \/ highlight_mode = "Message"
       \/ /\ highlight_mode = "Message Change"
          /\ can_id \in DOMAIN s.last_data
          /\ s.last_data[can_id] # data

(* a history that refuses the new entry when it is full *)
StatsStep_drops_newest(s, can_id, msg) ==
    LET stats0 == IF can_id \in DOMAIN s.id_stats
                  THEN s.id_stats[can_id]
                  ELSE [count |-> 0, first_timestamp |-> msg.timestamp,
                        last_timestamp |-> msg.timestamp]
        stats1 == [stats0 EXCEPT !.count = @ + 1, !.last_timestamp = msg.timestamp]
        hist0  == IF can_id \in DOMAIN s.message_history
                  THEN s.message_history[can_id] ELSE << >>
        hist1  == Append(hist0, <<msg.timestamp, msg.data>>)
        hist2  == IF Len(hist1) > HistoryCap THEN hist0 ELSE hist1
    IN  [s EXCEPT !.id_stats = Put(s.id_stats, can_id, stats1),
                  !.message_history = Put(s.message_history, can_id, hist2)]

(* display_message, lines 743-751: id_stats and message_history *)
StatsStep(s, can_id, msg) ==
    LET stats0 == IF can_id \in DOMAIN s.id_stats
                  THEN s.id_stats[can_id]
                  ELSE [count |-> 0, first_timestamp |-> msg.timestamp,
                        last_timestamp |-> msg.timestamp]
        stats1 == [stats0 EXCEPT !.count = @ + 1, !.last_timestamp = msg.timestamp]
        hist0  == IF can_id \in DOMAIN s.message_history
                  THEN s.message_history[can_id] ELSE << >>
        hist1  == Append(hist0, <<msg.timestamp, msg.data>>)
        hist2  == IF Len(hist1) > HistoryCap THEN Tail(hist1) ELSE hist1
    IN  [s EXCEPT !.id_stats = Put(s.id_stats, can_id, stats1),
                  !.message_history = Put(s.message_history, can_id, hist2)]

(* display_message, lines 753-769: highlight evaluation and last_data *)
HighlightStep(s, can_id, data, direction) ==
    LET hl  == should_highlight(s, can_id, data, direction)
        tm1 == IF hl /\ can_id \in DOMAIN s.highlighted_rows
               THEN after_cancel(s.timers, s.highlighted_rows[can_id].after_id)
               ELSE s.timers
        h   == NewHandle(tm1, Del(s.highlighted_rows, can_id))
        s1  == IF hl
               THEN [s EXCEPT !.timers = after(tm1, h, can_id),
                              !.highlighted_rows =
                                  Put(s.highlighted_rows, can_id, [level |-> 1, after_id |-> h])]
               ELSE s
    IN  IF direction = "RX"
        THEN [s1 EXCEPT !.last_data = Put(s1.last_data, can_id, data)]
        ELSE s1

(* the capacity test off by one *)
AtCapacity_exceeds(s) == Len(s.messages) > max_messages

(* display_message, lines 771-778: the eviction *)
AtCapacity(s) == Len(s.messages) >= max_messages

(* an eviction that removes the newest record instead of the oldest *)
EvictStep_newest(s) ==
    IF AtCapacity(s)
    THEN LET newest_id == s.messages[Len(s.messages)].can_id
         IN  [s EXCEPT !.messages = SubSeq(s.messages, 1, Len(s.messages) - 1),
                       !.id_stats = Del(s.id_stats, newest_id),
                       !.highlighted_rows = Del(s.highlighted_rows, newest_id)]
    ELSE s

(* an eviction that removes the record and leaves id_stats behind *)
EvictStep_keeps_stats(s) ==
    IF AtCapacity(s)
    THEN LET oldest_id == s.messages[1].can_id
         IN  [s EXCEPT !.messages = Tail(s.messages),
                       !.highlighted_rows = Del(s.highlighted_rows, oldest_id)]
    ELSE s

EvictStep(s) ==
    IF AtCapacity(s)
    THEN LET oldest_id == s.messages[1].can_id
         IN  [s EXCEPT !.messages = Tail(s.messages),
                       !.id_stats = Del(s.id_stats, oldest_id),
                       !.highlighted_rows = Del(s.highlighted_rows, oldest_id)]
    ELSE s

(* display_message, lines 780-798: update in place, or insert at the end *)
UpsertStep(s, can_id, msg, delta, tags) ==
    LET rec == [can_id |-> can_id, timestamp |-> msg.timestamp,
                delta |-> delta, tags |-> tags]
    IN  IF can_id \in StoredIds(s.messages)
        THEN [s EXCEPT !.messages[IndexOf(s.messages, can_id)] = rec]
        ELSE [s EXCEPT !.messages = Append(s.messages, rec)]

(* a timestamp outside the range datetime.fromtimestamp accepts; it       *)
(* stands for every such value                                             *)
BadTimestamp == 2147483647

(* display_message, line 712: datetime.fromtimestamp(msg.timestamp)        *)
(* raises, after the early return has been passed                          *)
fromtimestamp_raises(msg, direction) ==
    ~Dropped(msg, direction) /\ msg.timestamp = BadTimestamp

(* display_message(msg, direction); tags 0 is '', n is 'changedn'.  When   *)
(* line 712 raises, lines 707-711 have run and nothing else                *)
display_message(s, msg, direction, elapsed) ==
    IF Dropped(msg, direction) THEN s
    ELSE IF fromtimestamp_raises(msg, direction)
    THEN [s EXCEPT !.message_count = @ + 1,
                   !.last_message_timestamp = msg.timestamp]
    ELSE
    LET can_id == HexId(msg.arbitration_id)
        data   == HexData(msg.data)
        delta0 == IF Truthy(s.last_message_timestamp)
                  THEN msg.timestamp - s.last_message_timestamp ELSE 0
        delta  == IF delta0 < 0 THEN 0 ELSE delta0
        s1     == [s EXCEPT !.message_count = @ + 1,
                            !.last_message_timestamp = msg.timestamp]
        s2     == StatsStep(s1, can_id, msg)
        tags0  == IF can_id \in StoredIds(s.messages)
                  THEN s.messages[IndexOf(s.messages, can_id)].tags ELSE 0
        tags   == IF should_highlight(s2, can_id, data, direction) THEN 1 ELSE tags0
        s3     == HighlightStep(s2, can_id, data, direction)
        s4     == EvictStep(s3)
        s5     == UpsertStep(s4, can_id, msg, delta, tags)
    IN  update_stats(s5, elapsed)

(* fade_highlight(can_id), run by the Tk timer that has come due *)
fade_highlight(s, can_id) ==
    IF can_id \notin StoredIds(s.messages) \/ can_id \notin DOMAIN s.highlighted_rows
    THEN s
    ELSE
    LET level == s.highlighted_rows[can_id].level
        i     == IndexOf(s.messages, can_id)
    IN  IF level <= FadeSteps
        THEN LET h == NewHandle(s.timers, Del(s.highlighted_rows, can_id))
             IN  [s EXCEPT !.highlighted_rows[can_id] = [level |-> level + 1, after_id |-> h],
                           !.timers = after(s.timers, h, can_id),
                           !.messages[i].tags = level + 1]
        ELSE [s EXCEPT !.highlighted_rows = Del(s.highlighted_rows, can_id),
                       !.messages[i].tags = 0]

(* clear_treeview: display_mode is not modelled (it only selects a format) *)
clear_treeview(s) ==
    [s EXCEPT !.messages = << >>,
              !.message_history = EmptyMap,
              !.last_data = EmptyMap,
              !.highlighted_rows = EmptyMap,
              !.last_message_timestamp = None]

(* reset_stats *)
reset_stats(s, elapsed) ==
    update_stats([s EXCEPT !.id_stats = EmptyMap, !.message_count = 0,
                           !.message_rate = Zero, !.bus_load = Zero], elapsed)

(* a frequency that divides by the length of the duration *)
frequency_abs_duration(stats) ==
    LET duration == stats.last_timestamp - stats.first_timestamp
    IN  IF stats.count >= 2
        THEN IF duration > 0 THEN Rat(stats.count, duration)
             ELSE IF duration < 0 THEN Rat(stats.count, 0 - duration) ELSE Zero
        ELSE Zero

(* update_stats, lines 949-953: the frequency of one id_stats entry *)
frequency(stats) ==
    IF stats.count >= 2
    THEN LET duration == stats.last_timestamp - stats.first_timestamp
         IN  IF duration > 0 THEN Rat(stats.count, duration) ELSE Zero
    ELSE Zero

(* f"{frequency:.2f}": the value in hundredths, rounded to the nearest,    *)
(* a tie to the even one                                                   *)
Format2(r) ==
    LET q   == (r.n * 100) \div r.d
        rem == (r.n * 100) % r.d
    IN  IF 2 * rem > r.d \/ (2 * rem = r.d /\ q % 2 = 1) THEN q + 1 ELSE q

(* update_stats, lines 944-954: the rows of stats_tree, rebuilt from       *)
(* id_stats by every update_stats; every handler that changes id_stats     *)
(* ends with update_stats (display_message line 802, reset_stats line 572) *)
stats_tree ==
    [can_id \in DOMAIN id_stats |->
        [count |-> id_stats[can_id].count,
         last_time |-> id_stats[can_id].last_timestamp,
         frequency |-> Format2(frequency(id_stats[can_id]))]]

-----------------------------------------------------------------------------
(* History variables.  They record what an observer of the handlers sees   *)
(* and are read by no handler.                                             *)

ClearMark == <<-1>>
ResetMark == <<-2>>

NoEvent == [op |-> "init", can_id |-> NoId, direction |-> "", data |-> << >>,
            prev |-> << >>, had_prev |-> FALSE, dropped |-> FALSE,
            evicted |-> NoId, evicted_level |-> 0, highlighted |-> FALSE,
            level |-> 0, pending |-> 0, sent |-> FALSE,
            arb |-> 0, ext |-> FALSE, fd |-> FALSE, interval |-> 0,
            raised |-> FALSE]

(* number of fade callbacks pending for can_id *)
Pending(tm, can_id) == Cardinality({i \in 1..Len(tm) : tm[i].can_id = can_id})

(* the stored identifiers in the order they entered the store: an          *)
(* identifier enters when a frame is processed for it while it is not      *)
(* stored, and leaves when a step ends without it                          *)
InsOrderAfter(order, before, after_, can_id) ==
    LET o1 == IF can_id \notin StoredIds(before)
              THEN Append(order, can_id) ELSE order
    IN  SelectSeq(o1, LAMBDA k : k \in StoredIds(after_))

Hist == [trace |-> trace, ins_order |-> ins_order, prev_rx |-> prev_rx]

SetHist(h) ==
    /\ trace' = h.trace
    /\ ins_order' = h.ins_order
    /\ prev_rx' = h.prev_rx

(* the history after display_message took the store from before to after_ *)
Observe(h, before, after_, msg, direction) ==
    IF Dropped(msg, direction) \/ fromtimestamp_raises(msg, direction) THEN h
    ELSE LET can_id == HexId(msg.arbitration_id)
         IN  [trace |-> Append(h.trace, can_id),
              ins_order |-> InsOrderAfter(h.ins_order, before.messages,
                                          after_.messages, can_id),
              prev_rx |-> IF direction = "RX"
                          THEN Put(h.prev_rx, can_id, msg.data) ELSE h.prev_rx]

FrameEvent(msg, direction) ==
    LET can_id == HexId(msg.arbitration_id)
    IN  [NoEvent EXCEPT
            !.op = "display_message", !.can_id = can_id, !.direction = direction,
            !.data = msg.data,
            !.had_prev = can_id \in DOMAIN prev_rx,
            !.prev = IF can_id \in DOMAIN prev_rx THEN prev_rx[can_id] ELSE << >>,
            !.dropped = Dropped(msg, direction),
            !.evicted = IF ~Dropped(msg, direction) /\ AtCapacity(App)
                        THEN messages[1].can_id ELSE NoId,
            !.evicted_level =
                IF ~Dropped(msg, direction) /\ AtCapacity(App)
                THEN LET hl == HighlightStep(App, can_id, HexData(msg.data), direction).highlighted_rows
                     IN  IF messages[1].can_id \in DOMAIN hl
                         THEN hl[messages[1].can_id].level ELSE 0
                ELSE 0,
            !.highlighted = ~Dropped(msg, direction)
                            /\ should_highlight(App, can_id, HexData(msg.data), direction),
            !.pending = Pending(timers, can_id)]

-----------------------------------------------------------------------------
(* Actions of the Tk main thread on the store *)

(* one frame reaches display_message: from check_queue (RX) or from a      *)
(* successful send (TX)                                                    *)
ProcessFrame(msg, direction, elapsed) ==
    /\ main_pc = "idle"
    /\ SetApp(display_message(App, msg, direction, elapsed))
    /\ ev' = FrameEvent(msg, direction)
    /\ SetHist(Observe(Hist, App, display_message(App, msg, direction, elapsed),
                       msg, direction))
    /\ UNCHANGED <<cfgVars, connVars>>

(* the fade callback that is due first fires *)
FadeTick ==
    /\ main_pc = "idle"
    /\ timers # << >>
    /\ LET t == Head(timers)
       IN  /\ SetApp(fade_highlight([App EXCEPT !.timers = Tail(timers)], t.can_id))
           /\ ev' = [NoEvent EXCEPT
                        !.op = "fade_highlight", !.can_id = t.can_id,
                        !.level = IF t.can_id \in DOMAIN highlighted_rows
                                  THEN highlighted_rows[t.can_id].level ELSE 0,
                        !.pending = Pending(Tail(timers), t.can_id)]
    /\ UNCHANGED <<cfgVars, connVars,
                   trace, ins_order, prev_rx>>

ClearTreeview ==
    /\ main_pc = "idle"
    /\ Len(trace) < MaxFrames
    /\ messages # << >>
    /\ SetApp(clear_treeview(App))
    /\ ev' = [NoEvent EXCEPT !.op = "clear_treeview"]
    /\ trace' = Append(trace, ClearMark)
    /\ ins_order' = << >>
    /\ UNCHANGED <<cfgVars, connVars, prev_rx>>

ResetStats ==
    /\ main_pc = "idle"
    /\ Len(trace) < MaxFrames
    /\ id_stats # EmptyMap
    /\ \E elapsed \in {0, 1} : SetApp(reset_stats(App, elapsed))
    /\ ev' = [NoEvent EXCEPT !.op = "reset_stats"]
    /\ trace' = Append(trace, ResetMark)
    /\ UNCHANGED <<cfgVars, connVars,
                   ins_order, prev_rx>>

-----------------------------------------------------------------------------
(* Inputs *)

Capacities == 1..MaxCapacity

StoreArbIds == {1, 2, 3, 4}
StorePayloads == {<<0>>}
HlArbIds == {1, 2}
HlPayloads == {<<0>>, <<1, 255>>}
FillerArbId == 3

Msg(arb, d, ts) == [arbitration_id |-> arb, data |-> d, timestamp |-> ts]

InitApp ==
    /\ messages = << >>
    /\ id_stats = EmptyMap
    /\ message_history = EmptyMap
    /\ last_data = EmptyMap
    /\ highlighted_rows = EmptyMap
    /\ timers = << >>
    /\ message_count = 0
    /\ message_rate = Zero
    /\ bus_load = Zero
    /\ last_message_timestamp = None
    /\ paused = FALSE
    /\ filter_ids = {}
    /\ highlight_changes_var = TRUE
    /\ extended_id_var = FALSE
    /\ can_fd_var = FALSE
    /\ check_queue_job = TRUE
    /\ ev = NoEvent
    /\ trace = << >>
    /\ ins_order = << >>
    /\ prev_rx = EmptyMap

NoItem == [kind |-> "none"]

(* a pending periodic callback; cycles is a history field: the sends the  *)
(* job has made                                                            *)
Job(id, inp, cycles) ==
    [id |-> id, arb |-> inp.can_id, data |-> inp.data, interval |-> inp.interval,
     cycles |-> cycles]

(* errs is a history field: the transient errors this thread has seen      *)
(* since its last frame (or its start)                                     *)
Thread(pc, rbus) == [pc |-> pc, rbus |-> rbus, tmp |-> 0, item |-> NoItem, errs |-> 0]

(* the connection state after construction *)
InitConn ==
    /\ bus = 0
    /\ running = FALSE
    /\ message_queue = << >>
    /\ can_error_count = 0
    /\ threads = << >>
    /\ receiver_thread = 0
    /\ shutdowns = << >>
    /\ main_pc = "idle"
    /\ periodic_task_id = None
    /\ send_periodic_var = FALSE
    /\ periodic_jobs = {}
    /\ nrecv = 0

(* the connection state after construction and one successful start_can,   *)
(* the receiver waiting in bus.recv: frames reach display_message from     *)
(* check_queue (RX) and from the send handlers (TX) only while connected   *)
InitConnected ==
    /\ bus = 1
    /\ running = TRUE
    /\ message_queue = << >>
    /\ can_error_count = 0
    /\ threads = <<Thread("inrecv", 1)>>
    /\ receiver_thread = 1
    /\ shutdowns = <<0>>
    /\ main_pc = "idle"
    /\ periodic_task_id = None
    /\ send_periodic_var = FALSE
    /\ periodic_jobs = {}
    /\ nrecv = 0

(* max_messages is 500 in the source (line 58) and never reassigned; the   *)
(* handlers only compare it with the store size, so the exploration runs   *)
(* the same code at small capacities                                       *)
Init ==
    /\ max_messages \in Capacities
    /\ InitApp
    /\ InitConnected

(* The store under identifier churn: more identifiers than capacity *)
StoreFrame ==
    /\ Len(trace) < MaxFrames
    /\ \E arb \in StoreArbIds, d \in StorePayloads, direction \in {"RX", "TX"} :
          ProcessFrame(Msg(arb, d, 1), direction, 1)

Next ==
    \/ StoreFrame
    \/ ClearTreeview
    \/ ResetStats

Spec == Init /\ [][Next]_vars

(* The highlight state machine: payload changes, fades, evictions.  Two    *)
(* identifiers change payload in both directions; a third one only fills   *)
(* the store                                                               *)
HlFrames ==
    {<<arb, d, direction>> : arb \in HlArbIds, d \in HlPayloads, direction \in {"RX", "TX"}}
        \cup {<<FillerArbId, <<0>>, "RX">>}

HlFrame ==
    /\ Len(trace) < MaxFrames
    /\ \E f \in HlFrames : ProcessFrame(Msg(f[1], f[2], 1), f[3], 1)

NextHl ==
    \/ HlFrame
    \/ FadeTick
    \/ ClearTreeview

InitHl ==
    /\ max_messages \in 1..2
    /\ InitApp
    /\ InitConnected

SpecHl == InitHl /\ [][NextHl]_vars

(* The eviction scenario: three identifiers fill a store of capacity 3,    *)
(* the first is updated up to MaxUpdates times, a fourth one arrives       *)
Scenario(t) ==
    /\ Len(t) >= 1
    /\ \A i \in 1..Len(t) : t[i] \notin {ClearMark, ResetMark}
    /\ \A i, j \in 1..Len(t) : (i < j /\ j <= 3) => t[i] # t[j]
    /\ \A i \in 4..(Len(t) - 1) : t[i] = t[1]
    /\ Len(t) >= 4 => (t[Len(t)] = t[1] \/ t[Len(t)] \notin {t[1], t[2], t[3]})

ScenarioDone(t) == Scenario(t) /\ Len(t) >= 5 /\ t[Len(t)] # t[1]

FifoFrame ==
    /\ ~ScenarioDone(trace)
    /\ \E arb \in StoreArbIds, d \in StorePayloads, direction \in {"RX", "TX"} :
          /\ Scenario(Append(trace, HexId(arb)))
          /\ Len(trace) >= 3 + MaxUpdates => HexId(arb) # trace[1]
          /\ ProcessFrame(Msg(arb, d, 1), direction, 1)

InitFifo ==
    /\ max_messages = 3
    /\ InitApp
    /\ InitConnected

SpecFifo == InitFifo /\ [][FifoFrame]_vars

(* One identifier received past the history cap: the n-th frame carries    *)
(* timestamp n                                                             *)
HistoryFrame ==
    /\ Len(trace) < HistoryCap + MaxUpdates
    /\ ProcessFrame(Msg(1, <<0>>, Len(trace) + 1), "RX", 1)

SpecHistory == InitFifo /\ [][HistoryFrame]_vars

(* Frames with timestamps that advance, repeat, go back, and start at 0 *)
Timestamps == 0..2

DeltaFrame ==
    /\ Len(trace) < MaxFrames
    /\ \E ts \in Timestamps, direction \in {"RX", "TX"} :
          ProcessFrame(Msg(1, <<0>>, ts), direction, 1)

NextDelta ==
    \/ DeltaFrame
    \/ ClearTreeview

SpecDelta == InitFifo /\ [][NextDelta]_vars

-----------------------------------------------------------------------------
(* The identifier filter *)

StdMaxId == 2047
ExtMaxId == 536870911

(* max_id of apply_filter, validate_send_inputs and resend_selected *)
max_id == IF extended_id_var THEN ExtMaxId ELSE StdMaxId

(* what the user may type into the filter entry, as the set of numbers it  *)
(* parses to                                                               *)
FilterInputs == SUBSET {1, 2, StdMaxId + 1}

(* apply_filter with a text that parses: the ids up to max_id are kept,    *)
(* formatted as display_message formats them; an empty text clears the set *)
ApplyFilter ==
    /\ main_pc = "idle"
    /\ \E ids \in FilterInputs :
          filter_ids' = {HexId(n) : n \in {m \in ids : m <= max_id}}
    /\ ev' = [NoEvent EXCEPT !.op = "apply_filter"]
    /\ UNCHANGED <<max_messages, check_queue_job, paused, highlight_changes_var, extended_id_var,
                   can_fd_var, appVars, connVars,
                   trace, ins_order, prev_rx>>

(* frames of two identifiers: received ones with either payload, sent     *)
(* ones with one                                                           *)
FilterFrames ==
    {<<arb, d, "RX">> : arb \in HlArbIds, d \in HlPayloads}
        \cup {<<arb, <<0>>, "TX">> : arb \in HlArbIds}

FilterFrame ==
    /\ Len(trace) < MaxFrames
    /\ \E f \in FilterFrames : ProcessFrame(Msg(f[1], f[2], 1), f[3], 1)

NextFilter ==
    \/ FilterFrame
    \/ ApplyFilter

InitFilter ==
    /\ max_messages = 2
    /\ InitApp
    /\ InitConnected

SpecFilter == InitFilter /\ [][NextFilter]_vars

-----------------------------------------------------------------------------
(* The connection: start_can, stop_can, the receiver thread, check_queue   *)

MaxStarts == 2
MaxRecv == 2
ErrorThreshold == 10
batch_size == 5

ConnFrames == {Msg(1, <<0>>, 1), Msg(2, <<0>>, 1)}

Alive(i) == i # 0 /\ threads[i].pc # "done"

(* queue items; by (the producing thread), seq (the transport's count of   *)
(* delivered frames) and why (which handler built the exception) are       *)
(* history fields no handler reads                                         *)
FrameItem(msg, i, seq) == [kind |-> "msg", msg |-> msg, by |-> i, seq |-> seq]
ErrorItem(i, why) == [kind |-> "exc", by |-> i, why |-> why]

(* a thread that has ended keeps no error history *)
SetPc(i, pc) ==
    threads' = [threads EXCEPT ![i].pc = pc,
                               ![i].errs = IF pc = "done" THEN 0 ELSE @]

(* a stop that turns the toggle off and leaves the callback in Tk *)
StopPeriodicOn_no_cancel(jobs) ==
    /\ periodic_task_id' = None
    /\ send_periodic_var' = FALSE
    /\ periodic_jobs' = jobs

(* stop_periodic, lines 1036-1043, with jobs pending in Tk: after_cancel   *)
(* of the recorded id (nothing happens if that callback has fired), the    *)
(* toggle off                                                              *)
StopPeriodicOn(jobs) ==
    /\ periodic_task_id' = None
    /\ send_periodic_var' = FALSE
    /\ periodic_jobs' = IF periodic_task_id # None
                        THEN {j \in jobs : j.id # periodic_task_id}
                        ELSE jobs

stop_periodic == StopPeriodicOn(periodic_jobs)

(* self.after returns an id that no pending callback has and that differs  *)
(* from the recorded one                                                   *)
FreshId(jobs) ==
    LET used == {j.id : j \in jobs} \cup {periodic_task_id}
    IN  CHOOSE n \in 1..(Cardinality(jobs) + 2) :
            /\ n \notin used
            /\ \A m \in 1..(n - 1) : m \in used

(* a loop test that does not look at the flag *)
RecvLoop_ignores_flag(i) ==
    /\ threads[i].pc = "loop"
    /\ SetPc(i, "call")
    /\ UNCHANGED <<cfgVars, appVars, histVars, bus, running, message_queue,
                   can_error_count, receiver_thread, shutdowns, main_pc,
                   periodic_task_id, send_periodic_var, periodic_jobs, nrecv>>

(* receive_loop, line 884: while self.running *)
RecvLoop(i) ==
    /\ threads[i].pc = "loop"
    /\ SetPc(i, IF running THEN "call" ELSE "done")
    /\ UNCHANGED <<cfgVars, appVars, histVars, bus, running, message_queue,
                   can_error_count, receiver_thread, shutdowns, main_pc,
                   periodic_task_id, send_periodic_var, periodic_jobs, nrecv>>

(* line 886: self.bus is read and recv is entered; None has no recv *)
RecvCall(i) ==
    /\ threads[i].pc = "call"
    /\ threads' = [threads EXCEPT ![i].pc = IF bus = 0 THEN "exc" ELSE "inrecv",
                                  ![i].rbus = bus]
    /\ UNCHANGED <<cfgVars, appVars, histVars, bus, running, message_queue,
                   can_error_count, receiver_thread, shutdowns, main_pc,
                   periodic_task_id, send_periodic_var, periodic_jobs, nrecv>>

(* line 886: recv returns a frame, None on timeout, or raises *)
RecvReturn(i) ==
    /\ threads[i].pc = "inrecv"
    /\ \/ /\ nrecv < MaxRecv
          /\ \E msg \in ConnFrames :
                threads' = [threads EXCEPT ![i].pc = "put",
                                          ![i].item = FrameItem(msg, i, nrecv + 1),
                                          ![i].errs = 0]
          /\ nrecv' = nrecv + 1
       \/ /\ \E pc \in {"loop", "exc"} : SetPc(i, pc)
          /\ UNCHANGED nrecv
       \/ /\ threads' = [threads EXCEPT ![i].pc = "err_load", ![i].errs = @ + 1]
          /\ UNCHANGED nrecv
    /\ UNCHANGED <<cfgVars, appVars, histVars, bus, running, message_queue,
                   can_error_count, receiver_thread, shutdowns, main_pc,
                   periodic_task_id, send_periodic_var, periodic_jobs>>

(* line 888: self.message_queue.put(msg) *)
RecvPut(i) ==
    /\ threads[i].pc = "put"
    /\ message_queue' = Append(message_queue, threads[i].item)
    /\ threads' = [threads EXCEPT ![i].pc = "reset", ![i].item = NoItem]
    /\ UNCHANGED <<cfgVars, appVars, histVars, bus, running, can_error_count,
                   receiver_thread, shutdowns, main_pc, periodic_task_id,
                   send_periodic_var, periodic_jobs, nrecv>>

(* line 889: self.can_error_count = 0 *)
RecvReset(i) ==
    /\ threads[i].pc = "reset"
    /\ can_error_count' = 0
    /\ SetPc(i, "loop")
    /\ UNCHANGED <<cfgVars, appVars, histVars, bus, running, message_queue,
                   receiver_thread, shutdowns, main_pc, periodic_task_id,
                   send_periodic_var, periodic_jobs, nrecv>>

(* line 893: self.can_error_count += 1, the read *)
RecvErrLoad(i) ==
    /\ threads[i].pc = "err_load"
    /\ threads' = [threads EXCEPT ![i].pc = "err_store", ![i].tmp = can_error_count]
    /\ UNCHANGED <<cfgVars, appVars, histVars, bus, running, message_queue,
                   can_error_count, receiver_thread, shutdowns, main_pc,
                   periodic_task_id, send_periodic_var, periodic_jobs, nrecv>>

(* line 893: self.can_error_count += 1, the write *)
RecvErrStore(i) ==
    /\ threads[i].pc = "err_store"
    /\ can_error_count' = threads[i].tmp + 1
    /\ threads' = [threads EXCEPT ![i].pc = "err_check", ![i].tmp = 0]
    /\ UNCHANGED <<cfgVars, appVars, histVars, bus, running, message_queue,
                   receiver_thread, shutdowns, main_pc, periodic_task_id,
                   send_periodic_var, periodic_jobs, nrecv>>

(* the threshold test off by one *)
RecvErrCheck_at_threshold(i) ==
    /\ threads[i].pc = "err_check"
    /\ IF can_error_count >= ErrorThreshold
       THEN /\ message_queue' = Append(message_queue, ErrorItem(i, "excessive"))
            /\ SetPc(i, "done")
       ELSE /\ SetPc(i, IF running THEN "loop" ELSE "done")
            /\ UNCHANGED message_queue
    /\ UNCHANGED <<cfgVars, appVars, histVars, bus, running, can_error_count,
                   receiver_thread, shutdowns, main_pc, periodic_task_id,
                   send_periodic_var, periodic_jobs, nrecv>>

(* lines 894-900: past the threshold the fatal error is enqueued and the   *)
(* loop left; otherwise continue (running) or break (not running)          *)
RecvErrCheck(i) ==
    /\ threads[i].pc = "err_check"
    /\ IF can_error_count > ErrorThreshold
       THEN /\ message_queue' = Append(message_queue, ErrorItem(i, "excessive"))
            /\ SetPc(i, "done")
       ELSE /\ SetPc(i, IF running THEN "loop" ELSE "done")
            /\ UNCHANGED message_queue
    /\ UNCHANGED <<cfgVars, appVars, histVars, bus, running, can_error_count,
                   receiver_thread, shutdowns, main_pc, periodic_task_id,
                   send_periodic_var, periodic_jobs, nrecv>>

(* an exception handler that enqueues the error and keeps receiving *)
RecvExc_continues(i) ==
    /\ threads[i].pc = "exc"
    /\ IF running
       THEN message_queue' = Append(message_queue, ErrorItem(i, "exception"))
       ELSE UNCHANGED message_queue
    /\ SetPc(i, "loop")
    /\ UNCHANGED <<cfgVars, appVars, histVars, bus, running, can_error_count,
                   receiver_thread, shutdowns, main_pc, periodic_task_id,
                   send_periodic_var, periodic_jobs, nrecv>>

(* lines 901-904: any other exception; when not running the handler falls *)
(* through to the loop test                                                *)
RecvExc(i) ==
    /\ threads[i].pc = "exc"
    /\ IF running
       THEN /\ message_queue' = Append(message_queue, ErrorItem(i, "exception"))
            /\ SetPc(i, "done")
       ELSE /\ SetPc(i, "loop")
            /\ UNCHANGED message_queue
    /\ UNCHANGED <<cfgVars, appVars, histVars, bus, running, can_error_count,
                   receiver_thread, shutdowns, main_pc, periodic_task_id,
                   send_periodic_var, periodic_jobs, nrecv>>

(* start_can while a connection is active: line 824 returns *)
StartCanRejected ==
    /\ main_pc = "idle"
    /\ bus # 0
    /\ ev' = [NoEvent EXCEPT !.op = "start_can_rejected"]
    /\ UNCHANGED <<cfgVars, appVars, connVars, trace, ins_order, prev_rx>>

(* a start_can without the test of line 824 *)
StartCan_while_active ==
    /\ main_pc = "idle"
    /\ Len(threads) < MaxStarts
    /\ bus' = Len(shutdowns) + 1
    /\ shutdowns' = Append(shutdowns, 0)
    /\ running' = TRUE
    /\ last_message_timestamp' = None
    /\ message_count' = 0
    /\ message_rate' = Zero
    /\ bus_load' = Zero
    /\ can_error_count' = 0
    /\ threads' = Append(threads, Thread("loop", 0))
    /\ receiver_thread' = Len(threads) + 1
    /\ ev' = NoEvent
    /\ UNCHANGED <<cfgVars, messages, id_stats, message_history, last_data,
                   highlighted_rows, timers, message_queue, main_pc,
                   periodic_task_id, send_periodic_var, periodic_jobs, nrecv,
                   trace, ins_order, prev_rx>>

(* start_can, lines 826-853, the Bus constructor succeeding *)
StartCan ==
    /\ main_pc = "idle"
    /\ bus = 0
    /\ Len(threads) < MaxStarts
    /\ bus' = Len(shutdowns) + 1
    /\ shutdowns' = Append(shutdowns, 0)
    /\ running' = TRUE
    /\ last_message_timestamp' = None
    /\ message_count' = 0
    /\ message_rate' = Zero
    /\ bus_load' = Zero
    /\ can_error_count' = 0
    /\ threads' = Append(threads, Thread("loop", 0))
    /\ receiver_thread' = Len(threads) + 1
    /\ ev' = NoEvent
    /\ UNCHANGED <<cfgVars, messages, id_stats, message_history, last_data,
                   highlighted_rows, timers, message_queue, main_pc,
                   periodic_task_id, send_periodic_var, periodic_jobs, nrecv,
                   trace, ins_order, prev_rx>>

(* start_can, lines 854-857: the Bus constructor raises *)
StartCanFails ==
    /\ main_pc = "idle"
    /\ bus = 0
    /\ ev' = NoEvent
    /\ UNCHANGED <<cfgVars, appVars, connVars, trace, ins_order, prev_rx>>

(* stop_can, lines 860-866: the flag, stop_periodic, the drain; the main   *)
(* thread then reaches the join of line 867                                *)
StopCanBegin ==
    /\ main_pc = "idle"
    /\ running' = FALSE
    /\ stop_periodic
    /\ message_queue' = << >>
    /\ main_pc' = "stop_join"
    /\ ev' = NoEvent
    /\ UNCHANGED <<cfgVars, appVars, bus, can_error_count, threads,
                   receiver_thread, shutdowns, nrecv, trace, ins_order, prev_rx>>

(* stop_can, lines 869-881: the bus is shut down and the counters reset *)
StopCanRelease ==
    /\ shutdowns' = IF bus # 0 THEN [shutdowns EXCEPT ![bus] = @ + 1] ELSE shutdowns
    /\ bus' = 0
    /\ last_message_timestamp' = None
    /\ message_count' = 0
    /\ message_rate' = Zero
    /\ bus_load' = Zero
    /\ can_error_count' = 0
    /\ main_pc' = "idle"
    /\ ev' = NoEvent
    /\ UNCHANGED <<cfgVars, messages, id_stats, message_history, last_data,
                   highlighted_rows, timers, running, message_queue, threads,
                   receiver_thread, periodic_task_id, send_periodic_var, periodic_jobs, nrecv,
                   trace, ins_order, prev_rx>>

(* a stop_can that does not wait for the receiver *)
StopCanFinish_no_join ==
    /\ main_pc = "stop_join"
    /\ StopCanRelease

(* stop_can, lines 867-868: the thread is not alive, or join returns       *)
(* because it has ended (recv returns within its 0.1 s timeout, well       *)
(* inside the 2 s the join waits)                                          *)
StopCanFinish ==
    /\ main_pc = "stop_join"
    /\ ~Alive(receiver_thread)
    /\ StopCanRelease

(* stop_can, line 868: join gives up after 2 s, recv not having returned   *)
StopCanJoinTimeout ==
    /\ main_pc = "stop_join"
    /\ Alive(receiver_thread)
    /\ threads[receiver_thread].pc = "inrecv"
    /\ StopCanRelease

(* display_message raises while it processes this queue item *)
Raises(item) == item.kind = "msg" /\ fromtimestamp_raises(item.msg, "RX")

(* check_queue: the items one tick takes, up to batch_size, up to the      *)
(* first error marker and up to the first frame whose processing raises    *)
(* (the exception leaves the loop, lines 920-923)                          *)
RECURSIVE BatchLen(_, _)
BatchLen(q, n) ==
    IF n = 0 \/ q = << >> THEN 0
    ELSE IF Head(q).kind = "exc" \/ Raises(Head(q)) THEN 1
    ELSE 1 + BatchLen(Tail(q), n - 1)

(* a tick that does not schedule the next one when an item has failed *)
Reschedule_unless_failed(failed) == check_queue_job' = ~failed

(* check_queue, line 924: the tick schedules the next one, after the       *)
(* try block                                                               *)
Reschedule(failed) == check_queue_job' = TRUE

(* the frames of a batch applied in order; paused frames are discarded;    *)
(* els[k] is the elapsed time update_stats sees for the k-th item          *)
RECURSIVE ApplyBatch(_, _, _, _)
ApplyBatch(s, items, els, k) ==
    IF k > Len(items) \/ items[k].kind = "exc" THEN s
    ELSE ApplyBatch(IF paused THEN s
                    ELSE display_message(s, items[k].msg, "RX", els[k]),
                    items, els, k + 1)

RECURSIVE ObserveBatch(_, _, _, _, _)
ObserveBatch(h, s, items, els, k) ==
    IF k > Len(items) \/ items[k].kind = "exc" THEN h
    ELSE IF paused THEN ObserveBatch(h, s, items, els, k + 1)
    ELSE LET s2 == display_message(s, items[k].msg, "RX", els[k])
         IN  ObserveBatch(Observe(h, s, s2, items[k].msg, "RX"), s2, items, els, k + 1)

(* the first n items of q, last one first *)
Reversed(q, n) == [k \in 1..n |-> q[n + 1 - k]]

(* a tick that applies its batch newest first *)
CheckQueue_newest_first ==
    /\ main_pc = "idle"
    /\ check_queue_job
    /\ message_queue # << >>
    /\ LET n     == BatchLen(message_queue, batch_size)
           items == Reversed(message_queue, n)
           rest  == SubSeq(message_queue, n + 1, Len(message_queue))
           stops == message_queue[n].kind = "exc" /\ running
       IN  /\ \E els \in [1..n -> {0, 1}] :
                /\ SetApp(ApplyBatch(App, items, els, 1))
                /\ SetHist(ObserveBatch(Hist, App, items, els, 1))
           /\ IF stops
              THEN /\ running' = FALSE
                   /\ stop_periodic
                   /\ message_queue' = << >>
                   /\ main_pc' = "stop_join"
              ELSE /\ message_queue' = rest
                   /\ UNCHANGED <<running, periodic_task_id, send_periodic_var, periodic_jobs, main_pc>>
           /\ ev' = [NoEvent EXCEPT !.op = "check_queue", !.level = n,
                                    !.pending = IF stops THEN Len(rest) ELSE 0,
                                    !.raised = Raises(message_queue[n])]
    /\ Reschedule(ev'.raised)
    /\ UNCHANGED <<max_messages, paused, filter_ids, highlight_changes_var,
                   extended_id_var, can_fd_var,
                   bus, can_error_count, threads, receiver_thread,
                   shutdowns, nrecv>>

(* a tick that reports the error and keeps the connection *)
CheckQueue_keeps_connection ==
    /\ main_pc = "idle"
    /\ check_queue_job
    /\ message_queue # << >>
    /\ LET n     == BatchLen(message_queue, batch_size)
           items == SubSeq(message_queue, 1, n)
           rest  == SubSeq(message_queue, n + 1, Len(message_queue))
           stops == FALSE
       IN  /\ \E els \in [1..n -> {0, 1}] :
                /\ SetApp(ApplyBatch(App, items, els, 1))
                /\ SetHist(ObserveBatch(Hist, App, items, els, 1))
           /\ IF stops
              THEN /\ running' = FALSE
                   /\ stop_periodic
                   /\ message_queue' = << >>
                   /\ main_pc' = "stop_join"
              ELSE /\ message_queue' = rest
                   /\ UNCHANGED <<running, periodic_task_id, send_periodic_var, periodic_jobs, main_pc>>
           /\ ev' = [NoEvent EXCEPT !.op = "check_queue", !.level = n,
                                    !.pending = IF stops THEN Len(rest) ELSE 0,
                                    !.raised = Raises(message_queue[n])]
    /\ Reschedule(ev'.raised)
    /\ UNCHANGED <<max_messages, paused, filter_ids, highlight_changes_var,
                   extended_id_var, can_fd_var,
                   bus, can_error_count, threads, receiver_thread,
                   shutdowns, nrecv>>

(* check_queue, lines 906-924; on an error marker while running it enters  *)
(* stop_can, whose first half runs in the same step; ev.level is the       *)
(* number of items the tick dequeued, ev.pending the number of items the   *)
(* drain of stop_can removed                                               *)
CheckQueue ==
    /\ main_pc = "idle"
    /\ check_queue_job
    /\ message_queue # << >>
    /\ LET n     == BatchLen(message_queue, batch_size)
           items == SubSeq(message_queue, 1, n)
           rest  == SubSeq(message_queue, n + 1, Len(message_queue))
           stops == items[n].kind = "exc" /\ running
       IN  /\ \E els \in [1..n -> {0, 1}] :
                /\ SetApp(ApplyBatch(App, items, els, 1))
                /\ SetHist(ObserveBatch(Hist, App, items, els, 1))
           /\ IF stops
              THEN /\ running' = FALSE
                   /\ stop_periodic
                   /\ message_queue' = << >>
                   /\ main_pc' = "stop_join"
              ELSE /\ message_queue' = rest
                   /\ UNCHANGED <<running, periodic_task_id, send_periodic_var, periodic_jobs, main_pc>>
           /\ ev' = [NoEvent EXCEPT !.op = "check_queue", !.level = n,
                                    !.pending = IF stops THEN Len(rest) ELSE 0,
                                    !.raised = Raises(message_queue[n])]
    /\ Reschedule(ev'.raised)
    /\ UNCHANGED <<max_messages, paused, filter_ids, highlight_changes_var,
                   extended_id_var, can_fd_var,
                   bus, can_error_count, threads, receiver_thread,
                   shutdowns, nrecv>>

InitConnSpec ==
    /\ max_messages = 2
    /\ InitApp
    /\ InitConn

NextConn ==
    \/ \E i \in 1..Len(threads) : RecvLoop(i)
    \/ \E i \in 1..Len(threads) : RecvCall(i)
    \/ \E i \in 1..Len(threads) : RecvReturn(i)
    \/ \E i \in 1..Len(threads) : RecvPut(i)
    \/ \E i \in 1..Len(threads) : RecvReset(i)
    \/ \E i \in 1..Len(threads) : RecvErrLoad(i)
    \/ \E i \in 1..Len(threads) : RecvErrStore(i)
    \/ \E i \in 1..Len(threads) : RecvErrCheck(i)
    \/ \E i \in 1..Len(threads) : RecvExc(i)
    \/ StartCan
    \/ StartCanRejected
    \/ StartCanFails
    \/ StopCanBegin
    \/ StopCanFinish
    \/ CheckQueue

SpecConn == InitConnSpec /\ [][NextConn]_vars

(* The receiver thread is scheduled (the main thread blocks in the join    *)
(* or returns to the Tk loop) and recv returns within its timeout          *)
ReceiverStep ==
    \E i \in 1..Len(threads) :
        \/ RecvLoop(i) \/ RecvCall(i) \/ RecvReturn(i) \/ RecvPut(i) \/ RecvReset(i)
        \/ RecvErrLoad(i) \/ RecvErrStore(i) \/ RecvErrCheck(i) \/ RecvExc(i)

SpecConnFair == SpecConn /\ WF_vars(ReceiverStep)

(* the same with a receive that overruns the join *)
NextConnOverrun ==
    \/ NextConn
    \/ StopCanJoinTimeout

SpecConnOverrun == InitConnSpec /\ [][NextConnOverrun]_vars

(* Connections that follow one another over a transport whose recv may     *)
(* overrun the join and raises no transient CanError                       *)
NoTransientError == \A i \in 1..Len(threads') : threads'[i].pc # "err_load"

NextRestart ==
    \/ \E i \in 1..Len(threads) : RecvLoop(i)
    \/ \E i \in 1..Len(threads) : RecvCall(i)
    \/ \E i \in 1..Len(threads) : RecvReturn(i) /\ NoTransientError
    \/ \E i \in 1..Len(threads) : RecvPut(i)
    \/ \E i \in 1..Len(threads) : RecvReset(i)
    \/ \E i \in 1..Len(threads) : RecvExc(i)
    \/ StartCan
    \/ StopCanBegin
    \/ StopCanFinish
    \/ StopCanJoinTimeout
    \/ CheckQueue

SpecRestart == InitConnSpec /\ [][NextRestart]_vars

-----------------------------------------------------------------------------
(* Sending: send_once, toggle_periodic, schedule_periodic_send             *)

MaxCycles == 3

MinInterval == 10

ClassicMaxBytes == 8
FdMaxBytes == 64

max_bytes == IF can_fd_var THEN FdMaxBytes ELSE ClassicMaxBytes

(* None, the result of validate_send_inputs for entries it rejects; as an  *)
(* entry, a text that does not parse                                       *)
NoInput == [can_id |-> None, data |-> << >>, interval |-> 0]

(* the send entries as the numbers and bytes they parse to: identifiers    *)
(* inside and outside the 11-bit range, payloads inside and outside the    *)
(* classic length, intervals that are not positive, under 10 ms, and 10 ms *)
SendArbIds == HlArbIds \cup {StdMaxId + 1}
SendPayloads == {<<0>>, [k \in 1..(ClassicMaxBytes + 1) |-> 0]}
SendIntervals == {0, MinInterval - 5, MinInterval}
SendInputs == {[can_id |-> arb, data |-> d, interval |-> i] :
                  arb \in SendArbIds, d \in SendPayloads, i \in SendIntervals}

(* validate_send_inputs, lines 364-388 *)
validate_send_inputs(entry) ==
    IF \/ entry = NoInput
       \/ entry.can_id < 0
       \/ entry.can_id > max_id
       \/ Len(entry.data) > max_bytes
       \/ entry.interval <= 0
    THEN NoInput
    ELSE entry

(* a send that hands the frame to the bus and feeds nothing back *)
Transmit_no_feedback(msg, op, cycle) ==
    /\ ev' = [FrameEvent(msg, "TX") EXCEPT !.op = op, !.sent = TRUE, !.level = cycle,
                                           !.arb = msg.arbitration_id,
                                           !.ext = extended_id_var, !.fd = can_fd_var]
    /\ UNCHANGED <<appVars, trace, ins_order, prev_rx>>

(* the frame is built with the flags as they are now, bus.send returns    *)
(* and the frame goes to display_message as TX: lines 966-975 and          *)
(* 1016-1026; ext and fd record the flags the frame was built with         *)
Transmit(msg, op, cycle) ==
    /\ SetApp(display_message(App, msg, "TX", 1))
    /\ SetHist(Observe(Hist, App, display_message(App, msg, "TX", 1), msg, "TX"))
    /\ ev' = [FrameEvent(msg, "TX") EXCEPT !.op = op, !.sent = TRUE, !.level = cycle,
                                           !.arb = msg.arbitration_id,
                                           !.ext = extended_id_var, !.fd = can_fd_var]

(* a handler that returns without a frame on the bus: no connection, no    *)
(* valid input, or bus.send raised                                         *)
NotSent(op) ==
    /\ ev' = [NoEvent EXCEPT !.op = op]
    /\ UNCHANGED <<appVars, trace, ins_order, prev_rx>>

RestOfConn == <<bus, running, message_queue, can_error_count, threads,
                receiver_thread, shutdowns, main_pc, nrecv>>

(* send_once, lines 957-980 *)
SendOnce ==
    /\ main_pc = "idle"
    /\ Len(trace) < MaxFrames
    /\ IF bus = 0
       THEN NotSent("send_once")
       ELSE \E entry \in SendInputs \cup {NoInput}, ok \in BOOLEAN :
              LET inp == validate_send_inputs(entry)
              IN  IF inp # NoInput /\ ok
                  THEN Transmit(Msg(inp.can_id, inp.data, 1), "send_once", 0)
                  ELSE NotSent("send_once")
    /\ UNCHANGED <<cfgVars, connVars>>

(* a cycle that ends without a frame on the bus; level is the number of   *)
(* the cycle                                                               *)
CycleFailed(cycle) ==
    /\ ev' = [NoEvent EXCEPT !.op = "schedule_periodic_send", !.level = cycle]
    /\ UNCHANGED <<appVars, trace, ins_order, prev_rx>>

(* a cycle that schedules the next one whether or not its send succeeded *)
schedule_periodic_send_retries(v, inp, cycles, jobs) ==
    IF ~v \/ bus = 0
    THEN /\ StopPeriodicOn(jobs)
         /\ CycleFailed(cycles + 1)
    ELSE /\ \E ok \in BOOLEAN :
              IF ok
              THEN Transmit(Msg(inp.can_id, inp.data, 1), "schedule_periodic_send",
                            cycles + 1)
              ELSE CycleFailed(cycles + 1)
         /\ periodic_task_id' = FreshId(jobs)
         /\ send_periodic_var' = v
         /\ periodic_jobs' = jobs \cup {Job(FreshId(jobs), inp, cycles + 1)}

(* schedule_periodic_send, lines 1011-1034, called with the toggle at v    *)
(* after cycles sends of the job, jobs being the callbacks pending in Tk   *)
schedule_periodic_send(v, inp, cycles, jobs) ==
    IF ~v \/ bus = 0
    THEN /\ StopPeriodicOn(jobs)
         /\ CycleFailed(cycles + 1)
    ELSE \E ok \in BOOLEAN :
           IF ok
           THEN /\ Transmit(Msg(inp.can_id, inp.data, 1), "schedule_periodic_send",
                            cycles + 1)
                /\ periodic_task_id' = FreshId(jobs)
                /\ send_periodic_var' = v
                /\ periodic_jobs' = jobs \cup {Job(FreshId(jobs), inp, cycles + 1)}
           ELSE /\ StopPeriodicOn(jobs)
                /\ CycleFailed(cycles + 1)

(* toggle_periodic turned on and refused: inp is None or has an interval  *)
(* under 10 ms                                                             *)
ToggleRejected(inp) ==
    /\ ev' = [NoEvent EXCEPT !.op = "toggle_periodic", !.level = 1,
                             !.interval = inp.interval]
    /\ UNCHANGED <<appVars, trace, ins_order, prev_rx>>

(* a toggle command that starts the job whatever the interval is *)
TogglePeriodic_any_interval ==
    /\ main_pc = "idle"
    /\ Len(trace) < MaxFrames
    /\ LET v == ~send_periodic_var
       IN  IF bus = 0
           THEN /\ send_periodic_var' = FALSE
                /\ NotSent("toggle_periodic")
                /\ UNCHANGED <<periodic_task_id, periodic_jobs>>
           ELSE IF v
                THEN \E entry \in SendInputs \cup {NoInput} :
                       LET inp == validate_send_inputs(entry)
                       IN  IF inp = NoInput
                           THEN /\ stop_periodic
                                /\ ToggleRejected(inp)
                           ELSE schedule_periodic_send(v, inp, 0, periodic_jobs)
                ELSE /\ stop_periodic
                     /\ NotSent("toggle_periodic")
    /\ UNCHANGED <<cfgVars, RestOfConn>>

(* a toggle command that finds the variable on whatever it was *)
TogglePeriodic_starts_again ==
    /\ main_pc = "idle"
    /\ Len(trace) < MaxFrames
    /\ IF bus = 0
       THEN /\ send_periodic_var' = FALSE
            /\ NotSent("toggle_periodic")
            /\ UNCHANGED <<periodic_task_id, periodic_jobs>>
       ELSE \E entry \in SendInputs \cup {NoInput} :
              LET inp == validate_send_inputs(entry)
              IN  IF inp = NoInput \/ inp.interval < MinInterval
                  THEN /\ stop_periodic
                       /\ ToggleRejected(inp)
                  ELSE schedule_periodic_send(TRUE, inp, 0, periodic_jobs)
    /\ UNCHANGED <<cfgVars, RestOfConn>>

(* toggle_periodic, lines 982-1009: the click has flipped the checkbox     *)
(* variable before the command runs                                        *)
TogglePeriodic ==
    /\ main_pc = "idle"
    /\ Len(trace) < MaxFrames
    /\ LET v == ~send_periodic_var
       IN  IF bus = 0
           THEN /\ send_periodic_var' = FALSE
                /\ NotSent("toggle_periodic")
                /\ UNCHANGED <<periodic_task_id, periodic_jobs>>
           ELSE IF v
                THEN \E entry \in SendInputs \cup {NoInput} :
                       LET inp == validate_send_inputs(entry)
                       IN  IF inp = NoInput \/ inp.interval < MinInterval
                           THEN /\ stop_periodic
                                /\ ToggleRejected(inp)
                           ELSE schedule_periodic_send(v, inp, 0, periodic_jobs)
                ELSE /\ stop_periodic
                     /\ NotSent("toggle_periodic")
    /\ UNCHANGED <<cfgVars, RestOfConn>>

(* the pending periodic callback fires *)
PeriodicFire ==
    /\ main_pc = "idle"
    /\ Len(trace) < MaxFrames
    /\ \E j \in periodic_jobs :
          /\ j.cycles < MaxCycles
          /\ schedule_periodic_send(send_periodic_var,
                                    [can_id |-> j.arb, data |-> j.data,
                                     interval |-> j.interval],
                                    j.cycles, periodic_jobs \ {j})
    /\ UNCHANGED <<cfgVars, RestOfConn>>

(* toggle_pause, lines 560-563 *)
TogglePause ==
    /\ main_pc = "idle"
    /\ paused' = ~paused
    /\ ev' = [NoEvent EXCEPT !.op = "toggle_pause"]
    /\ UNCHANGED <<max_messages, check_queue_job, filter_ids, highlight_changes_var, extended_id_var,
                   can_fd_var, appVars, connVars,
                   trace, ins_order, prev_rx>>

NextSend ==
    \/ SendOnce
    \/ TogglePeriodic
    \/ PeriodicFire
    \/ TogglePause

(* after construction, or after one successful start_can *)
InitSend ==
    /\ max_messages = 2
    /\ InitApp
    /\ (InitConn \/ InitConnected)

SpecSend == InitSend /\ [][NextSend]_vars

(* the 29-bit ID and CAN FD checkboxes; their command, update_send_labels, *)
(* changes only labels                                                     *)
ToggleExtended ==
    /\ main_pc = "idle"
    /\ extended_id_var' = ~extended_id_var
    /\ ev' = [NoEvent EXCEPT !.op = "update_send_labels"]
    /\ UNCHANGED <<max_messages, check_queue_job, paused, filter_ids, highlight_changes_var, can_fd_var,
                   appVars, connVars, trace, ins_order, prev_rx>>

ToggleFd ==
    /\ main_pc = "idle"
    /\ can_fd_var' = ~can_fd_var
    /\ ev' = [NoEvent EXCEPT !.op = "update_send_labels"]
    /\ UNCHANGED <<max_messages, check_queue_job, paused, filter_ids, highlight_changes_var,
                   extended_id_var, appVars, connVars, trace, ins_order, prev_rx>>

(* The statistics tick and frames at different distances from the last    *)
(* recompute: elapsed is 0, 1 ms or 1 s                                    *)
StatsElapsed == {0, 1, MsPerSecond}

StatsFrame ==
    /\ Len(trace) < MaxFrames
    /\ \E elapsed \in StatsElapsed : ProcessFrame(Msg(1, <<0>>, 1), "RX", elapsed)

(* schedule_stats_update, lines 926-928: the once-per-second tick; level   *)
(* records the counter the tick found                                      *)
StatsTick ==
    /\ main_pc = "idle"
    /\ \E elapsed \in StatsElapsed : SetApp(update_stats(App, elapsed))
    /\ ev' = [NoEvent EXCEPT !.op = "update_stats", !.level = message_count]
    /\ UNCHANGED <<cfgVars, connVars, trace, ins_order, prev_rx>>

NextStats ==
    \/ StatsFrame
    \/ StatsTick
    \/ ResetStats
    \/ ToggleFd

SpecStats == InitFifo /\ [][NextStats]_vars

(* Sending while the frame format is switched *)
NextLimits ==
    \/ SendOnce
    \/ TogglePeriodic
    \/ PeriodicFire
    \/ ToggleExtended
    \/ ToggleFd

InitLimits ==
    /\ max_messages = 2
    /\ InitApp
    /\ InitConnected

SpecLimits == InitLimits /\ [][NextLimits]_vars

(* Periodic jobs across connections: the job is started and stopped by the *)
(* toggle, by a failing send and by stop_can                               *)
NextPeriodic ==
    \/ TogglePeriodic
    \/ PeriodicFire
    \/ SendOnce
    \/ CheckQueue
    \/ StopCanBegin
    \/ StopCanFinish

(* connected, the receiver having ended on an exception of recv: its       *)
(* marker is queued and no tick has seen it yet                            *)
InitPeriodic ==
    /\ max_messages = 2
    /\ InitApp
    /\ bus = 1
    /\ running = TRUE
    /\ message_queue = <<ErrorItem(1, "exception")>>
    /\ can_error_count = 0
    /\ threads = <<Thread("done", 1)>>
    /\ receiver_thread = 1
    /\ shutdowns = <<0>>
    /\ main_pc = "idle"
    /\ periodic_task_id = None
    /\ send_periodic_var = FALSE
    /\ periodic_jobs = {}
    /\ nrecv = 0

SpecPeriodic == InitPeriodic /\ [][NextPeriodic]_vars

(* The dispatcher tick on a queue the receiver has filled: frames, frames  *)
(* whose timestamp makes display_message raise, and error markers, with    *)
(* pause toggled and frames sent in between                                *)
MaxQueue == 6

TickKinds == {"frame", "raising", "exc"}

TickItem(kind, k) ==
    CASE kind = "frame" -> FrameItem(Msg(1, <<0>>, 1), 1, k)
      [] kind = "raising" -> FrameItem(Msg(1, <<0>>, BadTimestamp), 1, k)
      [] kind = "exc" -> ErrorItem(1, "exception")

TickQueues == {[k \in 1..MaxQueue |-> TickItem(f[k], k)] : f \in [1..MaxQueue -> TickKinds]}

InitTick ==
    /\ max_messages = 2
    /\ InitApp
    /\ bus = 1
    /\ running = TRUE
    /\ message_queue \in TickQueues
    /\ can_error_count = 0
    /\ threads = <<Thread("done", 1)>>
    /\ receiver_thread = 1
    /\ shutdowns = <<0>>
    /\ main_pc = "idle"
    /\ periodic_task_id = None
    /\ send_periodic_var = FALSE
    /\ periodic_jobs = {}
    /\ nrecv = 0

(* the Send button pressed while the display is paused *)
PausedSend == paused /\ SendOnce

NextTick ==
    \/ CheckQueue
    \/ TogglePause
    \/ PausedSend
    \/ StopCanFinish

SpecTick == InitTick /\ [][NextTick]_vars

-----------------------------------------------------------------------------
(* The message store *)

FrameProcessed == ev.op = "display_message" /\ ~ev.dropped

(* C1: after any sequence of processed frames, clears and resets the store *)
(* holds at most max_messages records                                      *)
C1_StoreBounded == Len(messages) <= max_messages

C1_Witness == Len(messages) = max_messages /\ ev.evicted # NoId /\ ev.evicted # ev.can_id

(* C2: a frame with an unseen identifier processed at capacity evicts      *)
(* exactly one identifier, the one that entered the store first, however   *)
(* often stored identifiers were updated since                             *)
C2_EvictsFirstInserted ==
    [][(/\ ev'.op = "display_message" /\ ~ev'.dropped
        /\ ev'.can_id \notin StoredIds(messages)
        /\ Len(messages) = max_messages)
       => StoredIds(messages) \ StoredIds(messages') = {Head(ins_order)}]_vars

(* C3: a frame whose identifier is already stored updates the record in    *)
(* place: no identifier removed, same size, same insertion order, also at  *)
(* capacity                                                                *)
C3_UpdateInPlace ==
    [][(/\ ev'.op = "display_message" /\ ~ev'.dropped
        /\ ev'.can_id \in StoredIds(messages))
       => IdsInOrder(messages') = IdsInOrder(messages)]_vars

(* C4: with capacity 3, after A, B, C are inserted in that order, A is     *)
(* updated one or more times and a new D is processed, the store holds     *)
(* A, C and D and not B                                                    *)
C4_FifoScenario ==
    (max_messages = 3 /\ ScenarioDone(trace))
        => /\ StoredIds(messages) = {trace[1], trace[3], trace[Len(trace)]}
           /\ trace[2] \notin StoredIds(messages)

C4_Witness == max_messages = 3 /\ ScenarioDone(trace) /\ Len(trace) >= 6

(* C5: an evicted identifier loses its IdStats and HighlightState entries  *)
(* in the step that removes its record                                     *)
C5_EvictionCollateral ==
    ev.evicted # NoId
        => /\ ev.evicted \notin DOMAIN id_stats
           /\ ev.evicted \notin DOMAIN highlighted_rows

C5_Witness == ev.evicted # NoId /\ ev.evicted # ev.can_id /\ ev.evicted_level > 0

-----------------------------------------------------------------------------
(* The highlight state machine *)

(* C6: the pending fade transition of an evicted identifier is cancelled   *)
C6_EvictionCancelsFade ==
    ev.evicted # NoId => Pending(timers, ev.evicted) = 0

(* C7: a HighlightState at level 1 is created only by an RX frame whose    *)
(* payload differs from that of the previous RX frame of the identifier; a *)
(* TX frame creates none and leaves the compared payload alone             *)
C7_HighlightOnlyOnRxChange ==
    /\ (FrameProcessed /\ ev.highlighted)
          => (ev.direction = "RX" /\ ev.had_prev /\ ev.prev # ev.data)
    /\ \A k \in DOMAIN last_data :
          k \in DOMAIN prev_rx /\ last_data[k] = HexData(prev_rx[k])

C7_Witness ==
    /\ FrameProcessed /\ ev.highlighted
    /\ ev.can_id \in DOMAIN highlighted_rows
    /\ highlighted_rows[ev.can_id].level = 1

(* C8: each fade tick raises the level by exactly 1 within 1..8, the tick  *)
(* at level 8 removes the HighlightState, and then no fade transition is   *)
(* pending for the identifier                                              *)
C8_FadeToIdle ==
    /\ \A k \in DOMAIN highlighted_rows : highlighted_rows[k].level \in 1..(FadeSteps + 1)
    /\ (ev.op = "fade_highlight" /\ ev.level \in 1..FadeSteps)
          => (ev.can_id \in DOMAIN highlighted_rows
              /\ highlighted_rows[ev.can_id].level = ev.level + 1)
    /\ (ev.op = "fade_highlight" /\ ev.level = FadeSteps + 1)
          => (ev.can_id \notin DOMAIN highlighted_rows
              /\ Pending(timers, ev.can_id) = 0)

(* C9: at most one fade transition is pending per identifier               *)
C9_OnePendingFade ==
    \A i, j \in 1..Len(timers) : timers[i].can_id = timers[j].can_id => i = j

-----------------------------------------------------------------------------
(* The connection *)

(* C10: when stop_can returns, the receiver joined, the queue holds no     *)
(* item of the stopped connection                                          *)
C10_QueueEmptyAfterStop ==
    [][(/\ main_pc = "stop_join" /\ main_pc' = "idle"
        /\ \A i \in 1..Len(threads) : ~Alive(i))
       => message_queue' = << >>]_vars

C12_FatalOnEleventhError ==
    [][\A i \in 1..Len(threads) :
          /\ (threads[i].pc = "err_check" /\ threads'[i].pc # "err_check")
                => IF threads[i].errs > ErrorThreshold
                   THEN /\ message_queue' = Append(message_queue, ErrorItem(i, "excessive"))
                        /\ threads'[i].pc = "done"
                   ELSE /\ message_queue' = message_queue
                        /\ threads'[i].pc = IF running THEN "loop" ELSE "done"
          /\ threads[i].errs <= ErrorThreshold + 1
          /\ (threads[i].pc = "put" /\ threads'[i].pc # "put")
                => /\ message_queue' = Append(message_queue, threads[i].item)
                   /\ threads'[i].pc = "reset"
          /\ (threads[i].pc = "reset" /\ threads'[i].pc # "reset")
                => can_error_count' = 0]_vars

C12_Witness ==
    \E k \in 1..Len(message_queue) :
        /\ message_queue[k].kind = "exc"
        /\ message_queue[k].why = "excessive"
        /\ ~Alive(message_queue[k].by)

(* C13: on a non-transient error while running the receiver enqueues       *)
(* exactly one error marker and ends without another receive               *)
C13_ExceptionEndsReceiver ==
    [][\A i \in 1..Len(threads) :
          /\ (threads[i].pc = "exc" /\ threads'[i].pc # "exc" /\ running)
                => /\ message_queue' = Append(message_queue, ErrorItem(i, "exception"))
                   /\ threads'[i].pc = "done"
          /\ threads[i].pc = "done" => threads'[i].pc = "done"]_vars

C13_Witness ==
    \E k \in 1..Len(message_queue) :
        /\ message_queue[k].kind = "exc"
        /\ message_queue[k].why = "exception"
        /\ ~Alive(message_queue[k].by)
        /\ threads[message_queue[k].by].rbus # 0

ReceiverRuns(i) == i \in 1..Len(threads) /\ threads[i].pc # "done"

C14_ReceiverTerminates ==
    [](\A i \in 1..MaxStarts :
          (ReceiverRuns(i) /\ ~running) => <>(~ReceiverRuns(i)))

C14_Witness ==
    /\ main_pc = "stop_join"
    /\ ~running
    /\ nrecv = 0
    /\ receiver_thread # 0
    /\ threads[receiver_thread].pc = "done"
    /\ threads[receiver_thread].rbus # 0

(* C15: start_can while a connection is active opens no transport, starts  *)
(* no receiver and leaves the flag, the queue, the counters and the store  *)
(* as they are                                                             *)
C15_StartRejectedWhileActive ==
    [][/\ (Len(threads') # Len(threads) \/ Len(shutdowns') # Len(shutdowns) \/ bus' \notin {bus, 0})
            => bus = 0
       /\ (ev'.op = "start_can_rejected" /\ ev.op # "start_can_rejected")
            => /\ bus # 0
               /\ UNCHANGED <<cfgVars, appVars, connVars, trace, ins_order, prev_rx>>]_vars

C15_Witness ==
    /\ ev.op = "start_can_rejected"
    /\ running
    /\ Alive(receiver_thread)
    /\ message_queue # << >>

(* C16: stop_can with no connection active changes nothing, so a second    *)
(* stop_can in a row leaves the state of the first; no transport is shut   *)
(* down twice                                                              *)
C16_StopIdempotent ==
    [][/\ (main_pc = "idle" /\ main_pc' = "stop_join" /\ bus = 0 /\ ~running)
            => UNCHANGED <<cfgVars, appVars, bus, running, message_queue,
                           can_error_count, threads, receiver_thread, shutdowns,
                           periodic_task_id, send_periodic_var, periodic_jobs>>
       /\ (main_pc = "stop_join" /\ main_pc' = "idle" /\ bus = 0)
            => UNCHANGED <<cfgVars, appVars, bus, running, message_queue,
                           can_error_count, threads, receiver_thread, shutdowns,
                           periodic_task_id, send_periodic_var, periodic_jobs>>
       /\ \A k \in 1..Len(shutdowns') : shutdowns'[k] <= 1]_vars

(* a tick: the only step that shortens the queue and names itself in ev *)
TickStep == ev'.op = "check_queue" /\ Len(message_queue') < Len(message_queue)

(* the identifiers of the frames among the first n items of q, in order *)
RECURSIVE FrameIds(_, _)
FrameIds(q, n) ==
    IF n = 0 THEN << >>
    ELSE IF q[n].kind = "msg"
         THEN Append(FrameIds(q, n - 1), HexId(q[n].msg.arbitration_id))
         ELSE FrameIds(q, n - 1)

IsSuffix(s, q) == Len(s) <= Len(q) /\ s = SubSeq(q, Len(q) - Len(s) + 1, Len(q))

(* C17: items leave the queue in the order the receiver enqueued them,     *)
(* across ticks and batches: the queue only grows at its tail and shrinks  *)
(* at its head, queued frames are in receive order, a tick applies the     *)
(* frames it dequeues in that order, and it reaches an error marker only   *)
(* as the last item it dequeues                                            *)
C17_QueueFifo ==
    [][/\ message_queue' # message_queue
            => \/ /\ Len(message_queue') = Len(message_queue) + 1
                  /\ SubSeq(message_queue', 1, Len(message_queue)) = message_queue
               \/ IsSuffix(message_queue', message_queue)
       /\ \A j, k \in 1..Len(message_queue') :
            (j < k /\ message_queue'[j].kind = "msg" /\ message_queue'[k].kind = "msg")
                => message_queue'[j].seq < message_queue'[k].seq
       /\ TickStep
            => /\ ev'.level \in 1..batch_size
               /\ ev'.level <= Len(message_queue)
               /\ \A k \in 1..(ev'.level - 1) : message_queue[k].kind = "msg"
               /\ trace' = trace \o FrameIds(message_queue, ev'.level)]_vars

C17_Witness ==
    /\ ev.op = "check_queue"
    /\ ev.level = 2
    /\ ev.pending = 0
    /\ main_pc = "idle"
    /\ Len(trace) >= 2
    /\ trace[Len(trace) - 1] # trace[Len(trace)]

(* C18: a tick that dequeues an error marker leaves the connection stopped *)
(* (flag cleared, periodic job stopped, transport released once stop_can   *)
(* has returned) and the queue empty, and applies none of the items that   *)
(* were queued behind the marker                                           *)
C18_ErrorMarkerStops ==
    [][/\ (TickStep /\ message_queue[ev'.level].kind = "exc")
            => /\ ~running'
               /\ periodic_task_id' = None
               /\ ~send_periodic_var'
               /\ message_queue' = << >>
               /\ trace' = trace \o FrameIds(message_queue, ev'.level)
               /\ (bus # 0 => main_pc' = "stop_join")
       /\ (main_pc' = "idle" /\ ~running') => bus' = 0]_vars

C18_Witness ==
    /\ ev.op = "check_queue"
    /\ ev.pending > 0
    /\ main_pc = "stop_join"
    /\ ~running
    /\ message_queue = << >>

-----------------------------------------------------------------------------
(* The filter *)

(* C19: with a non-empty filter set an RX frame whose identifier is not in *)
(* the set changes nothing; a TX frame is processed whatever the set is    *)
C19_FilterDropsOnlyRx ==
    [][ev'.op = "display_message"
          => IF ev'.direction = "RX" /\ filter_ids # {} /\ ev'.can_id \notin filter_ids
             THEN UNCHANGED <<appVars, trace, ins_order, prev_rx, max_messages>>
             ELSE /\ ev'.can_id \in StoredIds(messages')
                  /\ ev'.can_id \in DOMAIN message_history'
                  /\ Len(message_history'[ev'.can_id])
                        = 1 + (IF ev'.can_id \in DOMAIN message_history
                               THEN Len(message_history[ev'.can_id]) ELSE 0)
                  /\ last_message_timestamp' # None
                  /\ trace' = Append(trace, ev'.can_id)]_vars

C19_Witness ==
    /\ ev.op = "display_message"
    /\ ev.direction = "RX"
    /\ ev.dropped
    /\ filter_ids # {}
    /\ messages # << >>
    /\ \E k \in DOMAIN message_history : k \notin filter_ids

-----------------------------------------------------------------------------
(* Sending *)

SendStep == ev'.op \in {"send_once", "schedule_periodic_send"} /\ ev'.sent

Count(st, can_id) == IF can_id \in DOMAIN st THEN st[can_id].count ELSE 0
HistLen(mh, can_id) == IF can_id \in DOMAIN mh THEN Len(mh[can_id]) ELSE 0

(* the store row and one more history entry for the frame of the step *)
TxRecorded ==
    /\ ev'.direction = "TX"
    /\ ev'.can_id \in StoredIds(messages')
    /\ HistLen(message_history', ev'.can_id) = HistLen(message_history, ev'.can_id) + 1
    /\ trace' = Append(trace, ev'.can_id)

TxCounted == Count(id_stats', ev'.can_id) = Count(id_stats, ev'.can_id) + 1

C21_FailureStopsJob ==
    [][/\ ev'.op = "schedule_periodic_send"
            => IF ev'.sent
               THEN \E j \in periodic_jobs' :
                       /\ j.id = periodic_task_id'
                       /\ j.cycles = ev'.level
                       /\ HexId(j.arb) = ev'.can_id
               ELSE /\ periodic_jobs' = {}
                    /\ periodic_task_id' = None
                    /\ ~send_periodic_var'
       /\ periodic_jobs' \ periodic_jobs # {}
            => (ev'.op = "schedule_periodic_send" /\ ev'.sent)
       /\ (ev'.op = "schedule_periodic_send" /\ ev'.sent /\ ev'.level > 1)
            => \E j \in periodic_jobs :
                  /\ j.cycles = ev'.level - 1
                  /\ HexId(j.arb) = ev'.can_id
                  /\ j \notin periodic_jobs']_vars

(* the second cycle of a job failed *)
C21_Witness ==
    /\ ev.op = "schedule_periodic_send"
    /\ ~ev.sent
    /\ ev.level = 2
    /\ periodic_jobs = {}
    /\ periodic_task_id = None
    /\ ~send_periodic_var
    /\ Len(trace) >= 1

PeriodicVars == <<periodic_task_id, send_periodic_var, periodic_jobs>>

Stopped == periodic_jobs = {} /\ periodic_task_id = None /\ ~send_periodic_var

(* the steps that call stop_periodic: stop_can, the toggle switched off or *)
(* rejected, a cycle that did not send                                     *)
StopPeriodicStep ==
    /\ threads' = threads
    /\ \/ main_pc = "idle" /\ main_pc' = "stop_join"
       \/ ev'.op = "toggle_periodic" /\ bus # 0
       \/ ev'.op = "schedule_periodic_send" /\ ~ev'.sent

(* C22: after stop_periodic has returned no cycle fires until a new job is *)
(* started, and a further stop_periodic changes nothing                    *)
C22_StopPeriodicFinal ==
    [][/\ StopPeriodicStep => Stopped'
       /\ \A j \in periodic_jobs : j.id = periodic_task_id /\ send_periodic_var
       /\ (Stopped /\ StopPeriodicStep) => UNCHANGED PeriodicVars
       /\ (Stopped /\ ~UNCHANGED PeriodicVars)
            => (ev'.op = "schedule_periodic_send" /\ ev'.sent /\ ev'.level = 1)]_vars

(* a job that had sent twice was stopped by the disconnect, and stop_can   *)
(* is called again                                                         *)
C22_Witness ==
    /\ Stopped
    /\ main_pc = "stop_join"
    /\ bus = 0
    /\ ev.op = "init"
    /\ trace = <<HexId(1), HexId(1)>>
    /\ message_queue = << >>

(* C23: at most one periodic cycle is pending at any moment, and it is the *)
(* one recorded in periodic_task_id: no job starts beside an active one    *)
C23_OnePendingCycle ==
    /\ Cardinality(periodic_jobs) <= 1
    /\ \A j \in periodic_jobs : j.id = periodic_task_id

(* a job of identifier 2 started after frames of identifier 1 were sent,   *)
(* its first cycle done and its second pending                             *)
C23_Witness ==
    /\ ev.op = "schedule_periodic_send"
    /\ ev.sent
    /\ ev.level = 1
    /\ trace = <<HexId(1), HexId(1), HexId(2)>>
    /\ \E j \in periodic_jobs : periodic_jobs = {j} /\ j.arb = 2 /\ j.cycles = 1

(* C24: every frame handed to bus.send has an identifier within the range  *)
(* of the id flag it was built with and a payload within the length of the *)
(* FD flag it was built with                                               *)
C24_SentWithinLimits ==
    ev.sent =>
        /\ ev.arb >= 0
        /\ ev.arb <= (IF ev.ext THEN ExtMaxId ELSE StdMaxId)
        /\ Len(ev.data) <= (IF ev.fd THEN FdMaxBytes ELSE ClassicMaxBytes)

(* C25: activating periodic send with an interval under 10 ms sends no     *)
(* frame, schedules no cycle and leaves the toggle off                     *)
C25_ShortIntervalRejected ==
    [][/\ (ev'.op = "toggle_periodic" /\ ev'.level = 1 /\ threads' = threads)
            => /\ ~ev'.sent
               /\ Stopped'
               /\ UNCHANGED <<appVars, trace, ins_order, prev_rx>>
       /\ \A j \in periodic_jobs' : j.interval >= MinInterval
       /\ (ev'.op = "schedule_periodic_send" /\ ev'.sent /\ ev'.level = 1)
            => \E j \in periodic_jobs' : j.cycles = 1 /\ j.interval >= MinInterval]_vars

(* an activation with 5 ms was refused after a frame had been sent *)
C25_Witness ==
    /\ ev.op = "toggle_periodic"
    /\ ev.level = 1
    /\ ev.interval = MinInterval - 5
    /\ Stopped
    /\ Len(trace) >= 1

-----------------------------------------------------------------------------
(* Timestamps and counters *)

(* a frame has been processed since the last-seen timestamp was last reset *)
SeenSinceClear(tr) ==
    \E i \in 1..Len(tr) :
        /\ tr[i] \notin {ClearMark, ResetMark}
        /\ \A j \in (i + 1)..Len(tr) : tr[j] # ClearMark

RowOf(msgs, can_id) == msgs[IndexOf(msgs, can_id)]

(* C26: the delta of a processed frame is its timestamp minus the          *)
(* last-seen global timestamp, 0 if that is negative or if no frame has    *)
(* been seen since the last reset; it is never negative                    *)
C26_DeltaFromLastSeen ==
    [][(ev'.op = "display_message" /\ ~ev'.dropped /\ trace' # trace)
          => LET ts   == last_message_timestamp'
                 diff == ts - last_message_timestamp
             IN  RowOf(messages', ev'.can_id).delta
                   = IF ~SeenSinceClear(trace) \/ diff < 0 THEN 0 ELSE diff]_vars

Min(a, b) == IF a < b THEN a ELSE b

(* the last m of n frames numbered by their timestamps *)
LastFrames(n, m) == [k \in 1..m |-> <<n - m + k, <<0>>>>]

(* C27: a history buffer holds at most 1000 entries, the most recent       *)
(* processed frames of the identifier in arrival order                     *)
C27_HistoryCapped ==
    \A can_id \in DOMAIN message_history :
        /\ Len(message_history[can_id]) <= HistoryCap
        /\ message_history[can_id]
             = LastFrames(Len(trace), Min(Len(trace), HistoryCap))

(* two frames past the cap: the buffer starts at the third frame *)
C27_Witness ==
    /\ Len(trace) = HistoryCap + 2
    /\ Len(message_history[HexId(1)]) = HistoryCap
    /\ message_history[HexId(1)][1] = <<3, <<0>>>>
    /\ message_history[HexId(1)][HistoryCap] = <<HistoryCap + 2, <<0>>>>

(* C28: outside reset_stats the count of an identifier that stays in the   *)
(* store goes up by one with each of its processed frames and is otherwise *)
(* unchanged, the rate recompute included                                  *)
C28_CountCumulative ==
    [][trace' # Append(trace, ResetMark)
          => \A can_id \in StoredIds(messages) \cap StoredIds(messages') :
                Count(id_stats', can_id)
                  = Count(id_stats, can_id)
                      + (IF trace' = Append(trace, can_id) THEN 1 ELSE 0)]_vars

(* C29: processing a frame only increments the running frame counter; the  *)
(* rate and the load are recomputed and the counter reset by the           *)
(* statistics tick alone (besides reset_stats, start and stop)             *)
C29_FrameOnlyCounts ==
    [][(ev'.op = "display_message" /\ ~ev'.dropped /\ trace' # trace)
          => /\ message_count' = message_count + 1
             /\ message_rate' = message_rate
             /\ bus_load' = bus_load]_vars

ClampedLoad(rate) == IF RatLeq(LoadOf(rate), Hundred) THEN LoadOf(rate) ELSE Hundred

(* C30: the bus load is within 0..100; it is rate * bits_per_frame /       *)
(* bitrate * 100 when that is at most 100, and exactly 100 above           *)
C30_BusLoadClamped ==
    [][/\ bus_load'.d > 0
       /\ RatLeq(Zero, bus_load')
       /\ RatLeq(bus_load', Hundred)
       /\ bits_per_message = (IF can_fd_var THEN 192 ELSE 111)
       /\ (message_rate' # message_rate \/ bus_load' # bus_load)
            => /\ RatEq(bus_load', ClampedLoad(message_rate'))
               /\ ~RatLeq(LoadOf(message_rate'), Hundred) => bus_load' = Hundred]_vars

(* a recompute whose computed load is above 100 *)
C30_Witness ==
    /\ ev.op \in {"update_stats", "display_message"}
    /\ ~RatLeq(LoadOf(message_rate), Hundred)
    /\ bus_load = Hundred
    /\ message_count = 0


(* C31: the frequency reported for an identifier is count / (last -        *)
(* first timestamp) when count >= 2 and that duration is positive, and 0   *)
(* in every other case; the row shows it with two decimals                 *)
C31_Frequency ==
    \A can_id \in DOMAIN id_stats :
        LET st       == id_stats[can_id]
            duration == st.last_timestamp - st.first_timestamp
        IN  /\ (st.count >= 2 /\ duration > 0)
                 => /\ RatEq(frequency(st), [n |-> st.count, d |-> duration])
                    /\ 2 * (stats_tree[can_id].frequency * duration - 100 * st.count)
                         <= duration
                    /\ 2 * (100 * st.count - stats_tree[can_id].frequency * duration)
                         <= duration
            /\ (st.count < 2 \/ duration <= 0)
                 => /\ frequency(st) = Zero
                    /\ stats_tree[can_id].frequency = 0

(* count 5 over 2 s is reported as 2.50 *)
C31_Witness ==
    /\ HexId(1) \in DOMAIN id_stats
    /\ id_stats[HexId(1)].count = 5
    /\ id_stats[HexId(1)].last_timestamp - id_stats[HexId(1)].first_timestamp = 2
    /\ frequency(id_stats[HexId(1)]) = [n |-> 5, d |-> 2]
    /\ stats_tree[HexId(1)].frequency = 250


-----------------------------------------------------------------------------
(* Clearing, batches and the order of the steps *)

(* the fade callback that is due first is not the one highlighted_rows    *)
(* holds for its identifier: it was scheduled for an earlier highlight     *)
StaleFade ==
    /\ timers # << >>
    /\ \/ Head(timers).can_id \notin DOMAIN highlighted_rows
       \/ highlighted_rows[Head(timers).can_id].after_id # Head(timers).h

(* only one identifier seen so far: the store has never been full *)
NoEvictionYet == \A i \in 1..Len(trace) : trace[i] \in {HexId(1), ClearMark}

(* C32: after clear_treeview no per-identifier state remains: the store,   *)
(* the history buffers, the last payloads, id_stats and highlighted_rows   *)
(* are empty, and a fade callback scheduled before the clear changes no    *)
(* state when it fires afterwards                                          *)
C32_ClearEmptiesAll ==
    [][/\ ev'.op = "clear_treeview"
          => /\ messages' = << >>
             /\ message_history' = EmptyMap
             /\ last_data' = EmptyMap
             /\ highlighted_rows' = EmptyMap
             /\ id_stats' = EmptyMap
       /\ (ev'.op = "fade_highlight" /\ StaleFade /\ NoEvictionYet
              /\ max_messages > 1 /\ ClearMark \in SeqRange(trace))
          => /\ UNCHANGED <<messages, highlighted_rows>>
             /\ timers' = Tail(timers)]_vars


(* the items of q behind the first n *)
Remainder(q, n) == SubSeq(q, n + 1, Len(q))

(* the tick acts on an error marker: it is the last item dequeued and the  *)
(* connection is running                                                   *)
TickStops == message_queue[ev'.level].kind = "exc" /\ running

C34_LogSeesFrame ==
    [][(ev'.op = "display_message" /\ ~ev'.dropped /\ trace' # trace)
          => /\ ev'.can_id \in StoredIds(messages')
             /\ RowOf(messages', ev'.can_id).timestamp = last_message_timestamp'
             /\ ev'.can_id \in DOMAIN id_stats'
             /\ id_stats'[ev'.can_id].last_timestamp = last_message_timestamp'
             /\ id_stats'[ev'.can_id].count
                  = Count(id_stats, ev'.can_id) + 1]_vars


-----------------------------------------------------------------------------
(* Connections that follow one another *)

(* C35: a fatal error stops only the connection whose receiver enqueued    *)
(* it: the marker a tick acts on comes from the receiver of the current    *)
(* connection, never from that of a connection stopped before              *)
C35_ErrorStopsOwnConnection ==
    [][(TickStep /\ TickStops)
          => message_queue[ev'.level].by = receiver_thread]_vars


(* C36: at most one receiver thread is running at any time, and a receiver *)
(* receives only from the transport of the connection it was started for   *)
(* (the k-th thread belongs to the k-th Bus object)                        *)
C36_OneReceiver ==
    /\ Cardinality({i \in 1..Len(threads) : Alive(i)}) <= 1
    /\ \A i \in 1..Len(threads) : threads[i].pc = "inrecv" => threads[i].rbus = i


-----------------------------------------------------------------------------
(* Invariants of the per-identifier state *)

(* C37: a stored record carries a highlight tag exactly when               *)
(* highlighted_rows holds an entry of that level for its identifier, and a *)
(* tagged record has a fade callback pending                               *)
C37_TagMatchesHighlight ==
    \A i \in 1..Len(messages) :
        LET can_id == messages[i].can_id
        IN  /\ messages[i].tags \in 0..(FadeSteps + 1)
            /\ messages[i].tags # 0
                 <=> /\ can_id \in DOMAIN highlighted_rows
                     /\ highlighted_rows[can_id].level = messages[i].tags
            /\ messages[i].tags # 0 => Pending(timers, can_id) >= 1


(* C38: history buffers and last payloads are kept only for identifiers    *)
(* that are in the store, so at most max_messages identifiers hold one     *)
C38_StateOnlyForStored ==
    /\ DOMAIN message_history \subseteq StoredIds(messages)
    /\ DOMAIN last_data \subseteq StoredIds(messages)
    /\ Cardinality(DOMAIN message_history \cup DOMAIN last_data) <= max_messages


(* C39: in every id_stats entry first_timestamp <= last_timestamp, also    *)
(* when timestamps arrive out of order                                     *)
C39_FirstBeforeLast ==
    \A can_id \in DOMAIN id_stats :
        id_stats[can_id].first_timestamp <= id_stats[can_id].last_timestamp


-----------------------------------------------------------------------------
(* Pause *)

(* C40: a tick while paused dequeues as a tick does otherwise (up to 5     *)
(* items, an error marker ending the batch) and discards the frames: no    *)
(* store, statistics, history or highlight state changes and the frames    *)
(* are gone from the queue, so no later tick processes them; a frame sent  *)
(* while paused is transmitted and leaves that state unchanged too         *)
C40_PausedDiscards ==
    [][/\ (TickStep /\ paused)
            => /\ ev'.level \in 1..5
               /\ \/ ev'.level = 5
                  \/ ev'.level = Len(message_queue)
                  \/ message_queue[ev'.level].kind = "exc"
               /\ \A k \in 1..(ev'.level - 1) : message_queue[k].kind = "msg"
               /\ message_queue' = IF TickStops THEN << >>
                                   ELSE Remainder(message_queue, ev'.level)
               /\ UNCHANGED <<appVars, trace, ins_order, prev_rx>>
       /\ (ev'.op = "send_once" /\ paused)
            => UNCHANGED <<appVars, trace, ins_order, prev_rx>>]_vars

(* resumed after a paused tick took five frames: nothing was processed and *)
(* only the rest of the queue is left for the next tick                    *)
C40_Witness ==
    /\ ev.op = "toggle_pause"
    /\ ~paused
    /\ trace = << >>
    /\ messages = << >>
    /\ id_stats = EmptyMap
    /\ message_count = 0
    /\ last_message_timestamp = None
    /\ Len(message_queue) = MaxQueue - 5
    /\ \A k \in 1..Len(message_queue) :
          message_queue[k].kind = "msg" /\ message_queue[k].seq = 5 + k

====
